---- MODULE Spec2Model ----
(***************************************************************************)
(* Model of the fraction-ai-bot: src/bot.py (main, GameSession) and        *)
(* src/access_token.py (FractionAIAuth).                                   *)
(*                                                                         *)
(* One asyncio event loop runs main(), GameSession.run() and one           *)
(* initiate_match task per agent.  Tasks interleave only at awaits         *)
(* (session.post, response.json, asyncio.sleep).  refresh_token contains   *)
(* no await: FractionAIAuth uses the blocking requests library, so while   *)
(* an authentication is running no other task of the loop can step.        *)
(* Strings that the code inspects (tokens, file contents) are sequences of *)
(* one-character strings.                                                  *)
(***************************************************************************)
EXTENDS Integers, Sequences, FiniteSets, TLC

\* ---------------------------------------------------------------- bounds
NumAgents == 2
MaxCycles == 2

\* ------------------------------------------------------ program constants
max_retries == 3
CooldownSleep == 180
ErrorSleep == 60
TransportSleep == 5
CycleSleep == 10
OK_STATUS == 200

\* ------------------------------------------------------------------ data
Main == 0
agent_ids == 1..NumAgents
Procs == {Main} \cup agent_ids

None == [some |-> FALSE, val |-> <<>>]
Some(s) == [some |-> TRUE, val |-> s]
\* Python truthiness of an Optional[str]
TruthyNotNone(x) == x.some
Truthy(x) == x.some /\ x.val # <<>>

WS == " "
RECURSIVE LStrip(_)
LStrip(s) == IF s # <<>> /\ Head(s) = WS THEN LStrip(Tail(s)) ELSE s
RECURSIVE RStrip(_)
RStrip(s) == IF s # <<>> /\ s[Len(s)] = WS THEN RStrip(SubSeq(s, 1, Len(s) - 1)) ELSE s
\* str.strip()
Strip(s) == RStrip(LStrip(s))

\* access tokens the verify endpoint can hand out
ServerTokens == {<<"a">>, <<"b", WS>>}
\* contents of access_token.txt a start can find (NoFile: the file is absent)
NoFile == [exists |-> FALSE, content |-> <<>>]
FileOf(s) == [exists |-> TRUE, content |-> s]
InitFiles == {NoFile, FileOf(<<>>), FileOf(<<WS>>), FileOf(<<"a">>), FileOf(<<"a", WS>>)}

\* f"Bearer {self.token}": the token part of the Authorization header
NoneText == <<"N", "o", "n", "e">>
_generate_headers(tok) == IF tok.some THEN tok.val ELSE NoneText

\* ---- responses of POST /matchmaking/initiate
NF == "Not found"
IT == "Invalid token"
ATR == "Authentication token required"
Statuses == {200, 201, 404}
\* ctype: the Content-Type is JSON or not; text: what the body decodes to;
\* err: the "error" member; has: the markers the error string contains
Body(ct, tx, er, hs) == [ctype |-> ct, text |-> tx, err |-> er, has |-> hs]
Bodies ==
    { Body("html", "none", "absent", {}),
      Body("json", "garbage", "absent", {}),
      Body("json", "null", "absent", {}),
      Body("json", "dict", "absent", {}),
      Body("json", "dict", "int", {}),
      Body("json", "dict", "str", {}),
      Body("json", "dict", "str", {NF}),
      Body("json", "dict", "str", {IT}),
      Body("json", "dict", "str", {ATR}),
      Body("json", "dict", "str", {NF, IT}) }
NoBody == Body("none", "none", "absent", {})
NoResp == [net |-> "none", status |-> 0, body |-> NoBody]
TransportFailure == [net |-> "fail", status |-> 0, body |-> NoBody]
Responses == {TransportFailure} \cup
    {[net |-> "ok", status |-> s, body |-> b] : s \in Statuses, b \in Bodies}

\* response.status == 200, line 78
IsSuccessStatusCreated(s) == s = 201
IsSuccessStatus(s) == s = OK_STATUS

\* The branch of initiate_match a response leads to.
Classify(r) ==
    IF r.net = "fail" THEN "transport"
    ELSE IF r.body.ctype # "json" THEN "transport"
    ELSE IF r.body.text = "garbage" THEN "raise"
    ELSE IF IsSuccessStatus(r.status) THEN "success"
    ELSE IF r.body.text = "null" THEN "raise"
    ELSE IF r.body.err = "absent" THEN "error"
    ELSE IF r.body.err = "int" THEN "raise"
    ELSE IF NF \in r.body.has THEN "cooldown"
    ELSE IF IT \in r.body.has \/ ATR \in r.body.has THEN "auth"
    ELSE "error"

\* the asyncio.sleep of the branch: lines 84, 90, 95
SleepForUniform(b) == IF b \in {"cooldown", "auth", "error", "transport"} THEN ErrorSleep ELSE 0
SleepFor(b) ==
    CASE b = "cooldown" -> CooldownSleep
      [] b = "auth" -> ErrorSleep
      [] b = "error" -> ErrorSleep
      [] b = "transport" -> TransportSleep
      [] OTHER -> 0

\* ---- authentication (FractionAIAuth)
NonceOutcomes == {"fail", "nonce", "nononce"}
VerifyReplies == {None, Some(<<>>)} \cup {Some(t) : t \in ServerTokens}
WriteOutcomes == {"ok", "openfail", "writefail"}
\* stage: "idle", "nonce" (about to GET /auth/nonce), "got" (the GET has
\* answered), "verify" (about to POST /auth/verify), "verified" (it has answered);
\* attempt: fetch_nonce's loop variable; log: the outcomes of its GETs so far;
\* reply: what verify_dapp_auth is about to return; nonce: the local nonce of
\* verify_dapp_auth; posts: the messages it has sent to /auth/verify
NoNonce == <<>>
AuthIdle == [stage |-> "idle", attempt |-> 0, log |-> <<>>, reply |-> None,
             nonce |-> NoNonce, posts |-> <<>>]
AuthStart == [stage |-> "nonce", attempt |-> 0, log |-> <<>>, reply |-> None,
              nonce |-> NoNonce, posts |-> <<>>]

VARIABLES
    keyOK,      \* PRIVATE_KEY is set and well formed
    file,       \* access_token.txt
    token,      \* GameSession.token (main's local token before the session exists)
    headers,    \* bearer token inside GameSession.headers
    mpc,        \* main(): "load", "auth", "run", "exit", "crash", "stopped"
    rpc,        \* run(): "top", "gather", "sleep"
    cycle,      \* number of fan-outs so far
    rslept,     \* seconds run() has slept since the last gather returned
    pc,         \* per agent task: "idle","post","wait","classify","refresh","sleep","done",
                \* "cancelled"
    hdr,        \* per agent: bearer token of the headers handed to session.post
    resp,       \* per agent: the response being classified
    branch,     \* per agent: branch of initiate_match taken
    slept,      \* per agent: seconds the task has slept in this call
    refreshed,  \* per agent: the task has called refresh_token in this call
    result,     \* per agent: "pending", "data", "None", "exc"
    auth,       \* per process: the verify_dapp_auth call it is executing
    installed   \* the token access_token.txt got from a completed refresh_token,
                \* None when its content has another origin

vars == <<keyOK, file, token, headers, mpc, rpc, cycle, rslept, pc, hdr, resp,
          branch, slept, refreshed, result, auth, installed>>

sessionVars == <<token, headers, file, installed>>
runnerVars == <<rpc, cycle, rslept>>
taskVars == <<pc, hdr, resp, branch, slept, refreshed, result>>

Init ==
    /\ keyOK \in BOOLEAN
    /\ file \in InitFiles
    /\ token = None
    /\ headers = <<>>
    /\ mpc = "load"
    /\ rpc = "top"
    /\ cycle = 0
    /\ rslept = 0
    /\ pc = [a \in agent_ids |-> "idle"]
    /\ hdr = [a \in agent_ids |-> <<>>]
    /\ resp = [a \in agent_ids |-> NoResp]
    /\ branch = [a \in agent_ids |-> "none"]
    /\ slept = [a \in agent_ids |-> 0]
    /\ refreshed = [a \in agent_ids |-> FALSE]
    /\ result = [a \in agent_ids |-> "pending"]
    /\ auth = [p \in Procs |-> AuthIdle]
    /\ installed = None

\* ------------------------------------------------------------ scheduling
\* verify_dapp_auth is a plain (blocking) call: the loop is stuck in it
BlocksLoopAwaited(p) == FALSE
BlocksLoop(p) == auth[p].stage # "idle"

\* p is between two awaits: it runs, nobody else does
HoldsLoop(p) == BlocksLoop(p) \/ (p \in agent_ids /\ pc[p] = "classify")
CanStep(p) == \A q \in Procs \ {p} : ~HoldsLoop(q)

\* ------------------------------------------------------------------ main
\* main(), lines 130-147, up to the first network call
MainLoad ==
    /\ mpc = "load"
    /\ UNCHANGED <<keyOK, file, installed, runnerVars, taskVars>>
    /\ IF file.exists
       THEN LET tok == Some(Strip(file.content)) IN
            /\ auth' = auth
            /\ IF ~Truthy(tok)
               THEN mpc' = "exit" /\ UNCHANGED <<token, headers>>
               ELSE /\ mpc' = "run"
                    /\ token' = tok
                    /\ headers' = _generate_headers(tok)
       ELSE /\ UNCHANGED <<token, headers>>
            /\ IF keyOK
               THEN mpc' = "auth" /\ auth' = [auth EXCEPT ![Main] = AuthStart]
               ELSE mpc' = "crash" /\ auth' = auth

\* with open("access_token.txt", "w") as file: file.write(s)
WriteFileShort(s, w) ==
    CASE w = "ok" -> FileOf(SubSeq(s, 1, Len(s) - 1))
      [] w = "writefail" -> FileOf(<<>>)
      [] OTHER -> file
WriteFile(s, w) ==
    CASE w = "ok" -> FileOf(s)
      [] w = "writefail" -> FileOf(<<>>)
      [] OTHER -> file

\* main(), lines 136-147, after verify_dapp_auth has returned nt
MainAfterAuth(nt, w) ==
    /\ UNCHANGED <<runnerVars, taskVars>>
    /\ IF Truthy(nt)
       THEN /\ file' = WriteFile(nt.val, w)
            /\ installed' = IF w = "openfail" THEN installed ELSE None
            /\ IF w = "ok"
               THEN /\ mpc' = "run"
                    /\ token' = nt
                    /\ headers' = _generate_headers(nt)
               ELSE mpc' = "crash" /\ UNCHANGED <<token, headers>>
       ELSE mpc' = "exit" /\ UNCHANGED <<token, headers, file, installed>>

\* -------------------------------------------------------- refresh_token
\* the guard of line 52
InstallsAlways(nt) == TRUE
Installs(nt) == Truthy(nt)

\* what initiate_match does once refresh_token has returned (lines 89-91)
AfterRefreshReturn(a) ==
    /\ pc' = [pc EXCEPT ![a] = "done"]
    /\ result' = [result EXCEPT ![a] = "None"]
AfterRefresh(a) ==
    /\ pc' = [pc EXCEPT ![a] = "sleep"]
    /\ result' = result

\* refresh_token, lines 52-59, after verify_dapp_auth has returned nt, and
\* the rest of initiate_match up to its next await
RefreshReturn(a, nt, w) ==
    /\ UNCHANGED <<runnerVars, mpc, hdr, resp, branch, slept, refreshed>>
    /\ IF Installs(nt)
       THEN /\ token' = nt
            /\ headers' = _generate_headers(nt)
            /\ file' = WriteFile(nt.val, w)
            /\ installed' = CASE w = "ok" -> nt
                               [] w = "writefail" -> None
                               [] OTHER -> installed
            /\ IF w = "ok"
               THEN AfterRefresh(a)
               ELSE /\ pc' = [pc EXCEPT ![a] = "done"]
                    /\ result' = [result EXCEPT ![a] = "exc"]
       ELSE /\ UNCHANGED <<token, headers, file, installed>>
            /\ AfterRefresh(a)

\* verify_dapp_auth returns nt to its caller
AuthReturn(p, nt, w) ==
    /\ auth' = [auth EXCEPT ![p] = AuthIdle]
    /\ IF p = Main THEN MainAfterAuth(nt, w) ELSE RefreshReturn(p, nt, w)

\* ------------------------------------------------------- FractionAIAuth
\* the nonce GET /auth/nonce answers with: the server issues a new one for
\* every request, here named after the request (caller, cycle, attempt)
IssuedNonce(p) == <<p, cycle, auth[p].attempt>>

\* generate_auth_payload, lines 49-62: the message embeds the nonce
generate_auth_payload(nonce) == [nonce |-> nonce]

\* verify_dapp_auth, lines 92-96: it returns after its POST, answered or not
VerifyDoneOnSuccess(ok) == ok
VerifyDone(ok) == TRUE

\* fetch_nonce, lines 36-41: one GET /auth/nonce
FetchNonceCall(p, o) ==
    /\ auth[p].stage = "nonce"
    /\ CanStep(p)
    /\ auth' = [auth EXCEPT ![p].stage = "got", ![p].log = Append(@, o),
                            ![p].nonce = IF o = "nonce" THEN IssuedNonce(p) ELSE NoNonce]
    /\ UNCHANGED <<keyOK, sessionVars, mpc, runnerVars, taskVars>>

LastAttemptLate(att) == att = max_retries
LastAttempt(att) == att = max_retries - 1

\* fetch_nonce, lines 42-47, and verify_dapp_auth, lines 72-75
FetchNonceStep(p, w) ==
    /\ auth[p].stage = "got"
    /\ CanStep(p)
    /\ UNCHANGED keyOK
    /\ LET o == auth[p].log[Len(auth[p].log)] IN
       CASE o = "nonce" ->
              /\ auth' = [auth EXCEPT ![p].stage = "verify"]
              /\ UNCHANGED <<sessionVars, mpc, runnerVars, taskVars>>
         [] o = "nononce" -> AuthReturn(p, None, w)
         [] OTHER ->
              IF LastAttempt(auth[p].attempt)
              THEN AuthReturn(p, None, w)
              ELSE /\ auth' = [auth EXCEPT ![p].stage = "nonce", ![p].attempt = @ + 1]
                   /\ UNCHANGED <<sessionVars, mpc, runnerVars, taskVars>>

\* verify_dapp_auth, lines 77-96: one POST /auth/verify; ok = FALSE is a
\* RequestException (transport failure or non-2xx)
VerifyCall(p, ok, v) ==
    /\ auth[p].stage = "verify"
    /\ CanStep(p)
    /\ auth' = [auth EXCEPT ![p].stage = IF VerifyDone(ok) THEN "verified" ELSE "verify",
                            ![p].reply = IF ok THEN v ELSE None,
                            ![p].posts = Append(@, generate_auth_payload(auth[p].nonce))]
    /\ UNCHANGED <<keyOK, sessionVars, mpc, runnerVars, taskVars>>

VerifyReturn(p, w) ==
    /\ auth[p].stage = "verified"
    /\ CanStep(p)
    /\ UNCHANGED keyOK
    /\ AuthReturn(p, auth[p].reply, w)

\* the agents run() creates a task for, lines 103-104: every entry of
\* self.agent_ids (lines 31-33), whatever the previous cycle returned
RosterSkipCooldown == {a \in agent_ids : branch[a] # "cooldown"}
Roster == agent_ids

\* ------------------------------------------------------- initiate_match
\* run(), lines 103-105: gather starts one task per agent; each runs up to
\* its first await inside session.post, with the headers of that moment
FanOut ==
    /\ mpc = "run" /\ rpc = "top"
    /\ cycle < MaxCycles
    /\ CanStep(Main)
    /\ rpc' = "gather"
    /\ cycle' = cycle + 1
    /\ rslept' = 0
    /\ pc' = [a \in agent_ids |-> IF a \in Roster THEN "post" ELSE "done"]
    /\ hdr' = [a \in agent_ids |-> headers]
    /\ resp' = [a \in agent_ids |-> NoResp]
    /\ branch' = [a \in agent_ids |-> "none"]
    /\ slept' = [a \in agent_ids |-> 0]
    /\ refreshed' = [a \in agent_ids |-> FALSE]
    /\ result' = [a \in agent_ids |-> "pending"]
    /\ UNCHANGED <<keyOK, sessionVars, mpc, auth>>

\* session.post, lines 70-75: the request goes out
Send(a) ==
    /\ pc[a] = "post"
    /\ CanStep(a)
    /\ pc' = [pc EXCEPT ![a] = "wait"]
    /\ UNCHANGED <<keyOK, sessionVars, mpc, runnerVars, hdr, resp, branch, slept,
                   refreshed, result, auth>>

\* session.post / response.json(), lines 70-76: the awaits end with a
\* response r whose body is read, or with a transport failure or timeout
Receive(a, r) ==
    /\ pc[a] \in {"post", "wait"}
    /\ pc[a] = "post" => r = TransportFailure
    /\ CanStep(a)
    /\ pc' = [pc EXCEPT ![a] = "classify"]
    /\ resp' = [resp EXCEPT ![a] = r]
    /\ UNCHANGED <<keyOK, sessionVars, mpc, runnerVars, hdr, branch, slept,
                   refreshed, result, auth>>

\* initiate_match, lines 76-95, from the decoded body up to the next await
ClassifyStep(a) ==
    /\ pc[a] = "classify"
    /\ CanStep(a)
    /\ LET b == Classify(resp[a]) IN
       /\ branch' = [branch EXCEPT ![a] = b]
       /\ resp' = [resp EXCEPT ![a] = NoResp]
       /\ UNCHANGED <<keyOK, sessionVars, mpc, runnerVars, hdr, slept>>
       /\ CASE b = "success" ->
                /\ pc' = [pc EXCEPT ![a] = "done"]
                /\ result' = [result EXCEPT ![a] = "data"]
                /\ UNCHANGED <<refreshed, auth>>
            [] b = "raise" ->
                /\ pc' = [pc EXCEPT ![a] = "done"]
                /\ result' = [result EXCEPT ![a] = "exc"]
                /\ UNCHANGED <<refreshed, auth>>
            [] b = "auth" ->
                /\ refreshed' = [refreshed EXCEPT ![a] = TRUE]
                /\ IF keyOK
                   THEN /\ pc' = [pc EXCEPT ![a] = "refresh"]
                        /\ auth' = [auth EXCEPT ![a] = AuthStart]
                        /\ result' = result
                   ELSE /\ pc' = [pc EXCEPT ![a] = "done"]
                        /\ result' = [result EXCEPT ![a] = "exc"]
                        /\ auth' = auth
            [] OTHER ->
                /\ pc' = [pc EXCEPT ![a] = "sleep"]
                /\ UNCHANGED <<refreshed, result, auth>>

\* asyncio.sleep of lines 84, 90, 95 ends; the task returns None
Wake(a) ==
    /\ pc[a] = "sleep"
    /\ CanStep(a)
    /\ slept' = [slept EXCEPT ![a] = @ + SleepFor(branch[a])]
    /\ pc' = [pc EXCEPT ![a] = "done"]
    /\ result' = [result EXCEPT ![a] = "None"]
    /\ UNCHANGED <<keyOK, sessionVars, mpc, runnerVars, hdr, resp, branch,
                   refreshed, auth>>

\* ------------------------------------------------------------------ run
\* asyncio.gather(*tasks, return_exceptions=True) is complete
GatherDoneFirstException ==
    \/ \A a \in agent_ids : pc[a] = "done"
    \/ \E a \in agent_ids : result[a] = "exc"
GatherDoneNoFailures == \A a \in agent_ids : pc[a] = "done" /\ result[a] # "exc"
GatherDone == \A a \in agent_ids : pc[a] = "done"

\* run(), lines 105-115: gather returns, the results are logged
GatherReturnNoSleep ==
    /\ mpc = "run" /\ rpc = "gather"
    /\ GatherDone
    /\ CanStep(Main)
    /\ rpc' = "top"
    /\ UNCHANGED <<keyOK, sessionVars, mpc, cycle, rslept, taskVars, auth>>
GatherReturn ==
    /\ mpc = "run" /\ rpc = "gather"
    /\ GatherDone
    /\ CanStep(Main)
    /\ rpc' = "sleep"
    /\ UNCHANGED <<keyOK, sessionVars, mpc, cycle, rslept, taskVars, auth>>

\* run(), line 115: the inter-cycle sleep ends
RunnerWake ==
    /\ mpc = "run" /\ rpc = "sleep"
    /\ CanStep(Main)
    /\ rpc' = "top"
    /\ rslept' = rslept + CycleSleep
    /\ UNCHANGED <<keyOK, sessionVars, mpc, cycle, taskVars, auth>>

Next ==
    \/ MainLoad
    \/ \E p \in Procs, o \in NonceOutcomes : FetchNonceCall(p, o)
    \/ \E p \in Procs, w \in WriteOutcomes : FetchNonceStep(p, w)
    \/ \E p \in Procs, ok \in BOOLEAN, v \in VerifyReplies : VerifyCall(p, ok, v)
    \/ \E p \in Procs, w \in WriteOutcomes : VerifyReturn(p, w)
    \/ FanOut
    \/ \E a \in agent_ids : Send(a)
    \/ \E a \in agent_ids, r \in Responses : Receive(a, r)
    \/ \E a \in agent_ids : ClassifyStep(a)
    \/ \E a \in agent_ids : Wake(a)
    \/ GatherReturn
    \/ RunnerWake

Spec == Init /\ [][Next]_vars

\* the event loop keeps running what is ready: a callback that can run is
\* run, a network call answers or times out, a sleep ends
FairSpec == Spec /\ WF_vars(Next)

\* ------------------------------------------------- interrupt and restart
\* the refresh_token of p is about to open and write access_token.txt
AboutToWrite(p) == auth[p].stage = "verified" /\ Installs(auth[p].reply)

\* KeyboardInterrupt (lines 150-153): asyncio.run cancels run() and every
\* task that has not returned, at the await it is suspended in.  When the
\* interrupt hits the synchronous code of refresh_token or main between the
\* open (which truncates) and the end of the write, the file is left empty
\* (trunc); whether it can hit there depends on the Python version.  What the
\* stopped process no longer uses (the runner's position, the tasks' locals)
\* is returned to its initial value.
Interrupt(trunc) ==
    /\ mpc \in {"auth", "run"}
    /\ trunc => \E p \in Procs : AboutToWrite(p)
    /\ mpc' = "stopped"
    /\ pc' = [a \in agent_ids |-> IF pc[a] \in {"idle", "done"} THEN pc[a] ELSE "cancelled"]
    /\ resp' = [a \in agent_ids |-> NoResp]
    /\ auth' = [p \in Procs |-> AuthIdle]
    /\ file' = IF trunc THEN FileOf(<<>>) ELSE file
    /\ installed' = IF trunc THEN None ELSE installed
    /\ rpc' = "top"
    /\ rslept' = 0
    /\ hdr' = [a \in agent_ids |-> <<>>]
    /\ branch' = [a \in agent_ids |-> "none"]
    /\ slept' = [a \in agent_ids |-> 0]
    /\ refreshed' = [a \in agent_ids |-> FALSE]
    /\ UNCHANGED <<keyOK, token, headers, cycle, result>>

\* the process has ended and is started again: only access_token.txt and the
\* environment survive
Restart ==
    /\ mpc \in {"exit", "crash", "stopped"}
    /\ mpc' = "load"
    /\ token' = None
    /\ headers' = <<>>
    /\ rpc' = "top"
    /\ cycle' = 0
    /\ rslept' = 0
    /\ pc' = [a \in agent_ids |-> "idle"]
    /\ hdr' = [a \in agent_ids |-> <<>>]
    /\ resp' = [a \in agent_ids |-> NoResp]
    /\ branch' = [a \in agent_ids |-> "none"]
    /\ slept' = [a \in agent_ids |-> 0]
    /\ refreshed' = [a \in agent_ids |-> FALSE]
    /\ result' = [a \in agent_ids |-> "pending"]
    /\ auth' = [p \in Procs |-> AuthIdle]
    /\ UNCHANGED <<keyOK, file, installed>>

LifecycleNext ==
    \/ Next
    \/ \E trunc \in BOOLEAN : Interrupt(trunc)
    \/ Restart

LifecycleSpec == Init /\ [][LifecycleNext]_vars

\* ================================================================ claims
AllSettled == \A a \in agent_ids : pc[a] = "done" /\ result[a] # "pending"
\* the task of agent a leaves the classification of its response in this step
Classifies(a) == pc[a] = "classify" /\ pc'[a] # "classify"
\* the body of r decodes as JSON
DecodesAsJson(r) == r.net = "ok" /\ r.body.ctype = "json" /\ r.body.text # "garbage"
\* r carries {"error": <string containing marker m>}
ErrorHas(r, m) ==
    /\ DecodesAsJson(r)
    /\ r.body.text = "dict" /\ r.body.err = "str"
    /\ m \in r.body.has
\* the tasks of this cycle that have started a network authentication
NetworkAuths == {a \in agent_ids : refreshed[a] /\ keyOK}

\* C1: in one cycle at most one refresh (network authentication) is started,
\* however many agents receive the invalid-token / token-required marker.
C1_AtMostOneRefresh == Cardinality(NetworkAuths) <= 1

\* C2: at any moment at most one authentication started by refresh_token (or
\* by main) is in flight: a second one begins only when the first has returned.
C2_RefreshSerialized == Cardinality({p \in Procs : auth[p].stage # "idle"}) <= 1

\* C2 witness: one agent's authentication is in flight while another agent of
\* the same cycle has already completed its own refresh.
C2_Witness ==
    \E a, b \in agent_ids :
        /\ a # b
        /\ auth[a].stage = "verified"
        /\ refreshed[b] /\ branch[b] = "auth" /\ pc[b] = "sleep"

\* C3: initiate_match never lets an exception escape: every task settles with
\* a returned value.
C3_NeverRaises == \A a \in agent_ids : result[a] # "exc"

\* the steps agent b's task can take
TaskNext(b) ==
    \/ Send(b)
    \/ \E r \in Responses : Receive(b, r)
    \/ ClassifyStep(b)
    \/ Wake(b)
    \/ \E o \in NonceOutcomes : FetchNonceCall(b, o)
    \/ \E w \in WriteOutcomes : FetchNonceStep(b, w)
    \/ \E ok \in BOOLEAN, v \in VerifyReplies : VerifyCall(b, ok, v)
    \/ \E w \in WriteOutcomes : VerifyReturn(b, w)

C4_Inv ==
    \* run() is past gather only when every task of the cycle has settled
    /\ (cycle > 0 /\ rpc # "gather") => AllSettled
    \* a settled batch, exceptions included, lets run() go on to its sleep
    /\ (rpc = "gather" /\ AllSettled) => (mpc = "run" /\ ENABLED GatherReturn)
    /\ (rpc = "sleep") => (mpc = "run" /\ ENABLED RunnerWake)
    \* an unsettled task can take its next step whatever the others' results are
    /\ \A b \in agent_ids :
          (pc[b] \notin {"idle", "done"} /\ CanStep(b)) => ENABLED TaskNext(b)
C4_Step ==
    \A a \in agent_ids :
        (result'[a] # result[a] /\ result'[a] \in {"exc", "None"}) =>
            /\ \A b \in agent_ids \ {a} : pc'[b] = pc[b] /\ result'[b] = result[b]
            /\ rpc' = rpc /\ mpc' = mpc /\ cycle' = cycle

\* C4: a failure of one agent's task (a None result or an escaping exception)
\* touches no other task and not run(); the other tasks can still step, gather
\* returns only when all have settled, and run() then sleeps and loops on.
C4_FailureIsolated == [](C4_Inv) /\ [][C4_Step]_vars

\* C4 witness: one task has raised, another task of the same cycle has settled
\* after its own cooldown sleep, and run() has reached the inter-cycle sleep.
C4_Witness ==
    \E a, b \in agent_ids :
        /\ result[a] = "exc"
        /\ branch[b] = "cooldown" /\ result[b] = "None"
        /\ rpc = "sleep"

\* C5: tasks are started (and so requests issued) only by a fan-out; a fan-out
\* after the first happens only when every task of the previous cycle has
\* settled and run() has then slept 10 s; while a task is unsettled, sleeping
\* included, run() is waiting in gather.
C5_CycleBarrier ==
    /\ [](\A a \in agent_ids : pc[a] \notin {"idle", "done"} => rpc = "gather")
    /\ [][(\E a \in agent_ids : pc'[a] = "post" /\ pc[a] # "post") =>
            /\ cycle' = cycle + 1
            /\ cycle = 0 \/ (AllSettled /\ rpc = "top" /\ rslept >= 10)]_vars

\* C5 witness: a request of the second cycle is on the wire.
C5_Witness == cycle = 2 /\ \E a \in agent_ids : pc[a] = "wait"

\* C6 (as stated): a task that took the invalid-token branch and returned has
\* not slept.
C6_NoSleepAfterRefresh ==
    \A a \in agent_ids :
        (branch[a] = "auth" /\ result[a] = "None") => slept[a] = 0

\* C6 (amended): a response with the invalid-token or token-required marker
\* makes the task call refresh_token at once (the authentication starts in the
\* same step when the key is usable); when the task then returns, it returns
\* None after having slept 60 s, whether or not a token was installed.
C6_RefreshThenErrorSleep ==
    /\ [](\A a \in agent_ids :
            branch[a] = "auth" =>
                /\ refreshed[a]
                /\ pc[a] = "refresh" <=> auth[a].stage # "idle"
                /\ result[a] \in {"pending", "None", "exc"}
                /\ result[a] = "None" => slept[a] = 60
                /\ result[a] # "None" => slept[a] = 0)
    /\ [][\A a \in agent_ids :
            ( /\ Classifies(a)
              /\ resp[a].status # 200
              /\ ~ErrorHas(resp[a], NF)
              /\ ErrorHas(resp[a], IT) \/ ErrorHas(resp[a], ATR) ) =>
                /\ branch'[a] = "auth" /\ refreshed'[a]
                /\ IF keyOK THEN auth'[a].stage = "nonce" /\ pc'[a] = "refresh"
                            ELSE result'[a] = "exc"]_vars

\* C6 witness: a task has returned from the invalid-token branch after a
\* refresh that installed a new token.
C6_Witness ==
    \E a \in agent_ids :
        /\ branch[a] = "auth" /\ result[a] = "None"
        /\ token.val # hdr[a]

\* C7 (as stated): every response with a status in 200..299, whatever its
\* body, makes the task return the payload at once, with no sleep and no refresh.
C7_Every2xxIsSuccess ==
    [][\A a \in agent_ids :
        (Classifies(a) /\ resp[a].net = "ok" /\ resp[a].status \in 200..299) =>
            /\ branch'[a] = "success" /\ pc'[a] = "done" /\ result'[a] = "data"
            /\ slept'[a] = 0 /\ ~refreshed'[a]]_vars

\* C7 (amended): every response with status 200 whose body decodes as JSON
\* makes the task return the payload at once, with no sleep and no refresh;
\* and only such a response gives a payload result.
C7_Status200IsSuccess ==
    /\ [][\A a \in agent_ids :
            (Classifies(a) /\ resp[a].status = 200 /\ DecodesAsJson(resp[a])) =>
                /\ branch'[a] = "success" /\ pc'[a] = "done" /\ result'[a] = "data"
                /\ slept'[a] = 0 /\ ~refreshed'[a]
                /\ token' = token /\ file' = file]_vars
    /\ [][\A a \in agent_ids :
            (Classifies(a) /\ result'[a] = "data") =>
                resp[a].status = 200 /\ DecodesAsJson(resp[a])]_vars

\* C7 witness: a task has returned a payload.
C7_Witness ==
    \E a \in agent_ids : branch[a] = "success" /\ result[a] = "data" /\ slept[a] = 0

\* C8: a non-success response whose error string contains the not-found marker
\* puts the task on the cooldown branch; that task calls no refresh, changes
\* neither token nor file, and hands back its result (None) only after 180 s
\* of sleep.
C8_CooldownDelays ==
    /\ [][\A a \in agent_ids :
            (Classifies(a) /\ resp[a].status # 200 /\ ErrorHas(resp[a], NF)) =>
                /\ branch'[a] = "cooldown" /\ pc'[a] = "sleep"
                /\ result'[a] = "pending" /\ ~refreshed'[a]
                /\ token' = token /\ headers' = headers /\ file' = file]_vars
    /\ [][\A a \in agent_ids :
            (branch[a] = "cooldown" /\ pc[a] = "sleep" /\ pc'[a] # "sleep") =>
                /\ token' = token /\ headers' = headers /\ file' = file]_vars
    /\ [](\A a \in agent_ids :
            branch[a] = "cooldown" =>
                /\ ~refreshed[a] /\ auth[a].stage = "idle"
                /\ result[a] \in {"pending", "None"}
                /\ result[a] = "None" => slept[a] >= 180
                /\ rpc # "gather" => slept[a] >= 180)

\* C8 witness: run() has collected the result of a task that took the
\* cooldown branch.
C8_Witness ==
    \E a \in agent_ids :
        branch[a] = "cooldown" /\ result[a] = "None" /\ rpc = "sleep"

\* fetch_nonce returns None in this step of p
FetchReturnsNone(p) == auth[p].stage = "got" /\ auth'[p].stage = "idle"
AllFailed(log) == \A i \in 1..Len(log) : log[i] = "fail"

C10_TokenNonEmpty ==
    /\ mpc = "run" => (Truthy(token) /\ headers # <<>> /\ headers # NoneText)
    /\ \A a \in agent_ids :
          pc[a] # "idle" => (hdr[a] # <<>> /\ hdr[a] # NoneText)

\* C10 witness: a request is on the wire in a cycle in which another task's
\* refresh came back without a token.
C10_Witness ==
    \E a, b \in agent_ids :
        /\ pc[a] = "wait"
        /\ branch[b] = "auth" /\ pc[b] = "sleep" /\ token.val = hdr[b]

\* p's verify_dapp_auth returns no usable token in this step: the nonce fetch
\* is exhausted or got a reply without nonce, the verify exchange failed, or
\* its reply carries no (or an empty) token
RefreshFails(p) ==
    /\ auth'[p].stage = "idle"
    /\ \/ auth[p].stage = "got"
       \/ auth[p].stage = "verified" /\ (~auth[p].reply.some \/ auth[p].reply.val = <<>>)

\* C11: a refresh that obtains no token changes neither GameSession.token nor
\* the Authorization header nor access_token.txt, and run() keeps running: the
\* task goes on to its error sleep, nothing is raised.
C11_FailedRefreshKeepsToken ==
    [][\A a \in agent_ids :
        RefreshFails(a) =>
            /\ token' = token /\ headers' = headers /\ file' = file
            /\ mpc' = "run" /\ rpc' = rpc
            /\ pc'[a] = "sleep" /\ result'[a] = "pending"]_vars

\* C11 witness: in the first cycle exactly one task has refreshed and has
\* returned, and access_token.txt still holds the padded text found at start,
\* which no successful refresh would have left there.
C11_Witness ==
    /\ cycle = 1
    /\ file = FileOf(<<"a", WS>>) /\ token = Some(<<"a">>)
    /\ \E a \in agent_ids :
          /\ branch[a] = "auth" /\ result[a] = "None"
          /\ \A b \in agent_ids \ {a} : ~refreshed[b]

\* C12: whenever the session runs and no task is in the middle of its
\* synchronous code (so in every state a task can observe), access_token.txt
\* holds the in-memory token (surrounding whitespace aside).
C12_WriteThrough ==
    (mpc = "run" /\ \A p \in Procs : ~HoldsLoop(p)) =>
        (file.exists /\ Strip(file.content) = token.val)

\* main has read access_token.txt and decided how the start continues
StartupLoads == mpc = "load" /\ mpc' # "load"

\* C13 (as stated): every token a successful refresh installed is the token a
\* restart that loads the persisted record starts with, and that restart
\* performs no authentication at startup.
C13_RoundTrip ==
    [][(StartupLoads /\ installed.some) =>
          (token' = installed /\ mpc' = "run" /\ auth' = auth)]_vars

\* C13 (amended): every token without leading or trailing whitespace that a
\* completed refresh installed and wrote to access_token.txt is found there
\* unchanged by a restart, which then starts with exactly that token in the
\* session and its headers and performs no authentication at startup.
C13_CleanRoundTrip ==
    [][(StartupLoads /\ installed.some /\ Strip(installed.val) = installed.val) =>
          /\ file = FileOf(installed.val)
          /\ token' = installed
          /\ headers' = _generate_headers(installed)
          /\ mpc' = "run"
          /\ auth' = auth]_vars

C13_Witness ==
    /\ mpc = "run" /\ cycle = 0
    /\ installed = Some(<<"a">>)
    /\ token = installed /\ file = FileOf(<<"a">>)

\* access_token.txt holds a usable token
StoredUsable == file.exists /\ Strip(file.content) # <<>>

\* the authentication main started has returned no token
StartupAuthFailed ==
    /\ mpc = "auth"
    /\ \/ auth[Main].stage = "got"
       \/ auth[Main].stage = "verified"
          /\ (~auth[Main].reply.some \/ auth[Main].reply.val = <<>>)

\* C14: the process ends at startup, before any cycle, only when there is no
\* usable stored token and a fresh authentication is impossible (no
\* credentials) or has returned no token; a start that has a stored token or
\* whose authentication succeeds enters the Runner loop.
C14_ExitOnlyWithoutToken ==
    [][/\ (mpc \in {"load", "auth"} /\ mpc' \in {"exit", "crash"}) =>
             (~StoredUsable /\ (~keyOK \/ StartupAuthFailed))
       /\ (mpc = "load" /\ mpc' # "load" /\ StoredUsable) => mpc' = "run"]_vars

\* run() starts a cycle in this step
StartsCycle == mpc = "run" /\ rpc = "top" /\ rpc' = "gather"

\* C15: every cycle issues exactly one initiate request for each agent of the
\* roster, whatever the agents returned in the cycle before; a request for an
\* agent is issued only by the fan-out of a cycle and only when the agent has
\* none outstanding, and it goes out at most once.
C15_OneRequestPerAgentPerCycle ==
    [][/\ StartsCycle =>
            /\ cycle' = cycle + 1
            /\ \A a \in agent_ids : pc[a] \in {"idle", "done"} /\ pc'[a] = "post"
       /\ \A a \in agent_ids :
            /\ (pc'[a] = "post" /\ pc[a] # "post") => StartsCycle
            /\ (pc'[a] = "wait" /\ pc[a] # "wait") => (pc[a] = "post" /\ cycle' = cycle)]_vars

C15_Witness ==
    /\ cycle = 2 /\ rpc = "gather"
    /\ \A a \in agent_ids : pc[a] = "post"
    /\ installed.some

\* the outcomes the specification classifies
Outcomes == {"success", "cooldown", "auth", "error", "transport"}

\* C16: what gather hands to run() for an agent identifies how the agent's
\* outcome was classified: two settled agents with the same result have the
\* same classification.
C16_ResultIdentifiesOutcome ==
    \A a, b \in agent_ids :
        (/\ pc[a] = "done" /\ pc[b] = "done"
         /\ branch[a] \in Outcomes /\ branch[b] \in Outcomes
         /\ result[a] = result[b])
            => branch[a] = branch[b]

\* C17: when an interrupt has stopped the process, every task of the batch in
\* flight has settled (none was cancelled at its await) and access_token.txt
\* is not left empty.
C17_GracefulStop ==
    mpc = "stopped" =>
        /\ \A a \in agent_ids : pc[a] # "cancelled"
        /\ file.exists => file.content # <<>>

\* C18: with no interrupt and every network call answering or timing out,
\* the Runner never leaves its loop, every cycle it started settles whatever
\* the outcomes, the pause after it ends, and the fan-out of the next cycle
\* begins (for every cycle within the bound MaxCycles).
C18_RunnerLive ==
    /\ [][mpc = "run" => mpc' = "run"]_vars
    /\ (mpc = "run" /\ rpc = "gather") ~> (rpc = "sleep" /\ AllSettled)
    /\ (mpc = "run" /\ rpc = "sleep") ~> (rpc = "top")
    /\ \A k \in 0..(MaxCycles - 1) :
          (mpc = "run" /\ cycle = k) ~> (cycle = k + 1 /\ rpc = "gather")

C18_Witness ==
    /\ cycle = MaxCycles /\ rpc = "sleep" /\ AllSettled
    /\ \E a, b \in agent_ids :
          /\ result[a] = "exc"
          /\ branch[b] = "auth" /\ result[b] = "None"

\* the nonce entries of a fetch_nonce log
NonceReplies(log) == {i \in 1..Len(log) : log[i] = "nonce"}

\* C19: one authenticate call uses one nonce, the one its own last GET was
\* answered with, embeds it in the message it posts, and posts at most one
\* verify exchange (none when the fetch failed, no second one when the verify
\* fails); an agent authenticates at most once per cycle, so with the server
\* issuing a new nonce per GET no nonce is posted twice.
C19_NonceOnce ==
    /\ [](\A p \in Procs :
            LET c == auth[p] IN
            /\ Len(c.posts) <= 1
            /\ \A i \in 1..Len(c.posts) :
                  /\ c.posts[i].nonce = c.nonce
                  /\ c.nonce = <<p, cycle, c.attempt>>
                  /\ NonceReplies(c.log) = {Len(c.log)}
            /\ c.stage = "verified" <=> Len(c.posts) = 1
            /\ c.stage = "verify" => c.nonce # NoNonce
            /\ c.nonce = NoNonce => c.posts = <<>>)
    /\ [][\A a \in agent_ids :
            (auth[a].stage = "idle" /\ auth'[a].stage # "idle") =>
                (~refreshed[a] /\ refreshed'[a] /\ cycle' = cycle)]_vars

C19_Witness ==
    \E a, b \in agent_ids :
        /\ a # b
        /\ refreshed[a] /\ auth[a].stage = "idle" /\ installed.some
        /\ auth[b].stage = "verified" /\ auth[b].attempt = 1
        /\ auth[b].posts = <<[nonce |-> <<b, cycle, 1>>]>>
        /\ ~auth[b].reply.some

\* C20: at the moment a request goes out, the bearer token of its header is
\* the token the session holds.
C20_SentWithCurrentToken ==
    [][\A a \in agent_ids :
          (pc[a] = "post" /\ pc'[a] = "wait") => hdr[a] = _generate_headers(token)]_vars

====
